---- MODULE Spec2Model ----
(***************************************************************************)
(* pelutils: unique(n, stride, array, index, inverse, counts).             *)
(*                                                                         *)
(* Two variants of the same scan live in the repository:                   *)
(*   "ds"  src/pelutils/ds/ds.c   (plain C entry point, returns size_t)    *)
(*   "_c"  src/pelutils/_c/ds.c   (CPython entry point, returns a PyLong)  *)
(* They differ in the entry (ds returns 0 when index is NULL) and in how   *)
(* the result is handed back; the loop bodies are line-for-line the same.  *)
(*                                                                         *)
(* Memory is modelled by offsets from the base of `array`: p_elem is the   *)
(* byte offset stride * i.  A pointer argument is a record                 *)
(* [null, at]: null says whether it is NULL, at is the caller's buffer.    *)
(*                                                                         *)
(* The hash table is tidwall's hashmap.c, a submodule whose sources are    *)
(* not part of src/; it is modelled by the contract of its API as the      *)
(* scan uses it (hashmap_new / hashmap_get / hashmap_set / hashmap_free).  *)
(***************************************************************************)
EXTENDS Integers, Sequences, FiniteSets, TLC

\* ------------------------------------------------------------------ bounds
MaxN == 4            \* largest n
MaxStride == 2       \* largest stride (bytes per record)
HashMod == 2         \* size of the hash range: small, so that hashes collide
InitCap == 2         \* initial bucket count of the table (16 in hashmap.c)

Bytes == {0, 1}      \* byte values of the input
Garbage == {-1}      \* what caller-allocated buffers hold before the call

VARIABLES
    variant,      \* "ds" or "_c": which of the two entry points runs
    n,            \* number of array elements
    stride,       \* number of bytes between elements
    array,        \* the input bytes, offsets 0 .. n*stride-1
    index,        \* long* index
    inverse,      \* long* inverse
    counts,       \* long* counts
    map,          \* hashmap* map
    i,            \* loop variable
    n_unique,     \* size_t n_unique
    p_found_elem, \* result of hashmap_get
    pc,           \* position in unique
    ret,          \* the value returned (meaningful when pc = "done")
    counts0,      \* history: counts as it was before the call
    inv_written,  \* history: slots of inverse written so far
    cnt_written,  \* history: slots of counts written so far
    oom           \* history: "none", or which allocation failed: "new", "set"

vars == <<variant, n, stride, array, index, inverse, counts, map, i, n_unique,
          p_found_elem, pc, ret, counts0, inv_written, cnt_written, oom>>

\* --------------------------------------------------------------- pointers
NullBuf == [null |-> TRUE, at |-> <<>>]
Buf(len, g) == [null |-> FALSE, at |-> [j \in 0..(len - 1) |-> g]]

\* struct elem { void* p_elem; size_t stride; }
Elem(p, s) == [p_elem |-> p, stride |-> s]

\* A pointer to a struct elem: NULL, or pointing at a stored item.  Items are
\* stored with elsize = sizeof(struct elem*), so only p_elem is kept.
NullElem == [null |-> TRUE, p_elem |-> 0]
ElemPtr(p) == [null |-> FALSE, p_elem |-> p]

\* ------------------------------------------------------- libc and hashmap.c
\* memcmp(mem + p1, mem + p2, len): 0 iff the two spans hold the same bytes
RECURSIVE memcmp(_, _, _, _)
memcmp(mem, p1, p2, len) ==
    IF len = 0 THEN 0
    ELSE IF mem[p1] # mem[p2] THEN mem[p1] - mem[p2]
    ELSE memcmp(mem, p1 + 1, p2 + 1, len - 1)

\* hashmap_murmur(data, len, seed0, seed1): an order-sensitive hash of the span,
\* folded into a range of HashMod values so that distinct spans collide.
RECURSIVE hashmap_murmur(_, _, _, _)
hashmap_murmur(mem, p, len, h) ==
    IF len = 0 THEN h
    ELSE hashmap_murmur(mem, p + 1, len - 1, (3 * h + mem[p] + 1) % HashMod)

\* ---------------------------------------------------------- hash / compare
hash(mem, e) == hashmap_murmur(mem, e.p_elem, e.stride, 0)

\* (faulty variant: equality decided by the hash alone)
compare_hash_only(mem, e1, e2) == 0
compare(mem, e1, e2) == memcmp(mem, e1.p_elem, e2.p_elem, e1.stride)

\* ------------------------------------------------------------- the table
\* hashmap_new(sizeof(struct elem*), 0, 0, 0, hash, compare, NULL, NULL)
hashmap_new == [null |-> FALSE, items |-> <<>>, nbuckets |-> InitCap]
hashmap_null == [null |-> TRUE, items |-> <<>>, nbuckets |-> 0]

\* the table grows (allocates) when count reaches 3/4 of the buckets
GrowAt(m) == (m.nbuckets * 3) \div 4
MustGrow(m) == Len(m.items) = GrowAt(m)

\* hashmap_get(map, key): the stored item whose hash equals the key's and that
\* compare(key, item) reports equal; NULL when there is none.
hashmap_get(mem, m, key) ==
    LET hit == {k \in 1..Len(m.items) :
                   /\ m.items[k].hash = hash(mem, key)
                   /\ compare(mem, key, m.items[k]) = 0}
    IN IF hit = {} THEN NullElem
       ELSE ElemPtr(m.items[CHOOSE k \in hit : \A l \in hit : k <= l].p_elem)

\* hashmap_set(map, item), allocation succeeding: copies elsize bytes of the
\* item (its p_elem) into a bucket, with the item's hash.  unique calls it only
\* after hashmap_get returned NULL, so no stored item equals the new one and
\* the replace-on-equal path of the table is not modelled.
hashmap_set(mem, m, item) ==
    [m EXCEPT !.items = Append(@, [hash |-> hash(mem, item), p_elem |-> item.p_elem]),
              !.nbuckets = IF MustGrow(m) THEN 2 * @ ELSE @]

\* ------------------------------------------------------- the loop's pieces
\* struct elem this_elem = { .p_elem = (char*)array + stride * i, .stride = stride }
ThisElem(s, k) == Elem(s * k, s)

\* size_t found_index = ((char*)(p_found_elem->p_elem) - (char*)array) / stride
\* (faulty variant: the byte offset taken for the position)
FoundIndex_no_div(p, s) == p.p_elem
FoundIndex(p, s) == p.p_elem \div s

\* if (inverse != NULL) inverse[i] = inverse[found_index];
InverseFound(inv, k, found_index) ==
    IF inv.null THEN inv ELSE [inv EXCEPT !.at[k] = inv.at[found_index]]

\* if (counts != NULL) counts[found_index] ++;
\* (faulty variant: the count stored at the duplicate's own slot)
CountsFound_at_i(cnt, k, found_index) ==
    IF cnt.null THEN cnt ELSE [cnt EXCEPT !.at[k] = cnt.at[found_index] + 1]
CountsFound(cnt, k, found_index) ==
    IF cnt.null THEN cnt ELSE [cnt EXCEPT !.at[found_index] = @ + 1]

\* index[n_unique] = i;
\* (faulty variant: the rank stored instead of the position)
IndexNew_rank(idx, k, nu) == [idx EXCEPT !.at[nu] = nu]
IndexNew(idx, k, nu) == [idx EXCEPT !.at[nu] = k]

\* if (inverse != NULL) inverse[i] = n_unique;
\* (faulty variant: the position stored instead of the rank)
InverseNew_position(inv, k, nu) ==
    IF inv.null THEN inv ELSE [inv EXCEPT !.at[k] = k]
InverseNew(inv, k, nu) ==
    IF inv.null THEN inv ELSE [inv EXCEPT !.at[k] = nu]

\* if (counts != NULL) counts[i] = 1;
\* (faulty variant: a new group starts at 0)
CountsNew_zero(cnt, k, nu) ==
    IF cnt.null THEN cnt ELSE [cnt EXCEPT !.at[k] = 0]
CountsNew(cnt, k, nu) ==
    IF cnt.null THEN cnt ELSE [cnt EXCEPT !.at[k] = 1]

\* ------------------------------------------------------------------- Init
Variants == {"ds", "_c"}

Init ==
    /\ variant \in Variants
    /\ n \in 0..MaxN
    /\ stride \in 0..MaxStride
    /\ array \in [0..(n * stride - 1) -> Bytes]
    /\ \E g \in Garbage :
          /\ index \in {NullBuf, Buf(n, g)}
          /\ inverse \in {NullBuf, Buf(n, g)}
          /\ counts \in {NullBuf, Buf(n, g)}
    /\ counts0 = counts
    /\ map = hashmap_null
    /\ i = 0
    /\ n_unique = 0
    /\ p_found_elem = NullElem
    /\ pc = "entry"
    /\ ret = 0
    /\ inv_written = {}
    /\ cnt_written = {}
    /\ oom = "none"

\* ---------------------------------------------------------------- actions
\* ds/ds.c: if (index == NULL) return 0;
EarlyReturn ==
    /\ pc = "entry"
    /\ variant = "ds"
    /\ index.null
    /\ ret' = 0
    /\ pc' = "done"
    /\ UNCHANGED <<variant, n, stride, array, index, inverse, counts, map, i,
                   n_unique, p_found_elem, counts0, inv_written, cnt_written, oom>>

\* hashmap* map = hashmap_new(...); size_t n_unique = 0; i = 0
New ==
    /\ pc = "entry"
    /\ ~(variant = "ds" /\ index.null)
    /\ map' = hashmap_new
    /\ n_unique' = 0
    /\ i' = 0
    /\ pc' = "loop"
    /\ UNCHANGED <<variant, n, stride, array, index, inverse, counts,
                   p_found_elem, ret, counts0, inv_written, cnt_written, oom>>

\* i < n: construct this_elem, p_found_elem = hashmap_get(map, &this_elem)
Lookup ==
    /\ pc = "loop"
    /\ i < n
    /\ ~map.null
    /\ p_found_elem' = hashmap_get(array, map, ThisElem(stride, i))
    /\ pc' = IF p_found_elem'.null THEN "notfound" ELSE "found"
    /\ UNCHANGED <<variant, n, stride, array, index, inverse, counts, map, i,
                   n_unique, ret, counts0, inv_written, cnt_written, oom>>

\* The writes of the found branch, for a given found_index
FoundWrites(found_index) ==
    /\ inverse' = InverseFound(inverse, i, found_index)
    /\ counts' = CountsFound(counts, i, found_index)
    /\ inv_written' = IF inverse.null THEN inv_written ELSE inv_written \cup {i}
    /\ cnt_written' = cnt_written
    /\ i' = i + 1
    /\ pc' = "loop"
    /\ UNCHANGED <<variant, n, stride, array, index, map, n_unique,
                   p_found_elem, ret, counts0, oom>>

\* p_found_elem != NULL, stride > 0
Found ==
    /\ pc = "found"
    /\ stride # 0
    /\ FoundWrites(FoundIndex(p_found_elem, stride))

\* p_found_elem != NULL, stride = 0: the division by stride is undefined.
\* An integer division by zero traps on x86 (SIGFPE) and yields 0 on AArch64.
FoundDivByZero ==
    /\ pc = "found"
    /\ stride = 0
    /\ \/ /\ pc' = "crash"
          /\ UNCHANGED <<variant, n, stride, array, index, inverse, counts, map,
                         i, n_unique, p_found_elem, ret, counts0, inv_written,
                         cnt_written, oom>>
       \/ FoundWrites(0)

\* The writes of the else branch after hashmap_set, index not NULL
NewWrites ==
    /\ index' = IndexNew(index, i, n_unique)
    /\ inverse' = InverseNew(inverse, i, n_unique)
    /\ counts' = CountsNew(counts, i, n_unique)
    /\ inv_written' = IF inverse.null THEN inv_written ELSE inv_written \cup {i}
    /\ cnt_written' = IF counts.null THEN cnt_written ELSE cnt_written \cup {i}
    /\ n_unique' = n_unique + 1
    /\ i' = i + 1
    /\ pc' = "loop"
    /\ UNCHANGED <<variant, n, stride, array, p_found_elem, ret, counts0>>

\* p_found_elem == NULL: hashmap_set(map, &this_elem); index[n_unique] = i; ...
Insert ==
    /\ pc = "notfound"
    /\ ~index.null
    /\ map' = hashmap_set(array, map, ThisElem(stride, i))
    /\ oom' = oom
    /\ NewWrites

\* _c/ds.c has no test of index: index[n_unique] = i stores through NULL, which
\* faults (page 0 is not mapped).
InsertNullIndex ==
    /\ pc = "notfound"
    /\ index.null
    /\ map' = hashmap_set(array, map, ThisElem(stride, i))
    /\ pc' = "crash"
    /\ UNCHANGED <<variant, n, stride, array, index, inverse, counts, i,
                   n_unique, p_found_elem, ret, counts0, inv_written,
                   cnt_written, oom>>

\* i == n: hashmap_free(map); return n_unique
Return ==
    /\ pc = "loop"
    /\ i >= n
    /\ ret' = n_unique
    /\ pc' = "done"
    /\ UNCHANGED <<variant, n, stride, array, index, inverse, counts, map, i,
                   n_unique, p_found_elem, counts0, inv_written, cnt_written, oom>>

Next ==
    \/ EarlyReturn
    \/ New
    \/ Lookup
    \/ Found
    \/ FoundDivByZero
    \/ Insert
    \/ InsertNullIndex
    \/ Return

Spec == Init /\ [][Next]_vars

\* ------------------------------------------------- allocation can fail
\* hashmap_new returns NULL when malloc fails; unique does not test it.
NewFails ==
    /\ pc = "entry"
    /\ ~(variant = "ds" /\ index.null)
    /\ map' = hashmap_null
    /\ oom' = "new"
    /\ n_unique' = 0
    /\ i' = 0
    /\ pc' = "loop"
    /\ UNCHANGED <<variant, n, stride, array, index, inverse, counts,
                   p_found_elem, ret, counts0, inv_written, cnt_written>>

\* hashmap_get(NULL, &this_elem) reads through the NULL map, which faults.
LookupNullMap ==
    /\ pc = "loop"
    /\ i < n
    /\ map.null
    /\ pc' = "crash"
    /\ UNCHANGED <<variant, n, stride, array, index, inverse, counts, map, i,
                   n_unique, p_found_elem, ret, counts0, inv_written,
                   cnt_written, oom>>

\* hashmap_set must grow the table and the allocation fails: it returns NULL
\* (as it does on success) and stores nothing; unique carries on.
InsertOom ==
    /\ pc = "notfound"
    /\ ~index.null
    /\ MustGrow(map)
    /\ map' = map
    /\ oom' = "set"
    /\ NewWrites

NextOom ==
    \/ Next
    \/ NewFails
    \/ LookupNullMap
    \/ InsertOom

SpecOom == Init /\ [][NextOom]_vars

\* ------------------------------------------ the scan as one computation
\* for (size_t i = 0; i < n; i ++) { ... } from the state st, no allocation
\* failing and stride > 0: the loop of unique run to its end.
RECURSIVE Scan(_, _, _, _)
Scan(mem, s, len, st) ==
    IF st.i >= len THEN st
    ELSE LET e == ThisElem(s, st.i)
             f == hashmap_get(mem, st.map, e)
         IN IF ~f.null
            THEN LET found_index == FoundIndex(f, s)
                 IN Scan(mem, s, len,
                         [st EXCEPT !.inverse = InverseFound(@, st.i, found_index),
                                    !.counts = CountsFound(@, st.i, found_index),
                                    !.i = @ + 1])
            ELSE Scan(mem, s, len,
                      [st EXCEPT !.map = hashmap_set(mem, @, e),
                                 !.index = IndexNew(@, st.i, st.n_unique),
                                 !.inverse = InverseNew(@, st.i, st.n_unique),
                                 !.counts = CountsNew(@, st.i, st.n_unique),
                                 !.n_unique = @ + 1,
                                 !.i = @ + 1])

\* unique(n, stride, array, index, inverse, counts) with the three outputs
\* requested, on the input of the current call
UniqueAllRequested ==
    LET g == CHOOSE x \in Garbage : TRUE
    IN Scan(array, stride, n,
            [i |-> 0, n_unique |-> 0, map |-> hashmap_new,
             index |-> Buf(n, g), inverse |-> Buf(n, g), counts |-> Buf(n, g)])

\* ------------------------------------------------------ claim vocabulary
Pos == 0..(n - 1)
\* the record at position k: its stride bytes
Rec(k) == [b \in 0..(stride - 1) |-> array[stride * k + b]]
AllRequested == ~index.null /\ ~inverse.null /\ ~counts.null
PairwiseDistinct == \A a, b \in Pos : a # b => Rec(a) # Rec(b)
\* k is the first position holding its content
FirstOccurrence(k) == \A j \in Pos : j < k => Rec(j) # Rec(k)
Ranks == 0..(ret - 1)

\* C1: after unique with all three outputs requested and stride > 0, every
\* record i is byte-identical to the record at index[inverse[i]], and two records
\* with differing bytes never share a group, colliding hashes or not.
InvC1 ==
    (pc = "done" /\ AllRequested /\ stride > 0) =>
        /\ \A a \in Pos :
              /\ inverse.at[a] \in Ranks
              /\ index.at[inverse.at[a]] \in Pos
              /\ Rec(a) = Rec(index.at[inverse.at[a]])
        /\ \A a, b \in Pos : Rec(a) # Rec(b) => inverse.at[a] # inverse.at[b]

\* A finished call, all outputs requested, with two different records whose
\* hashes collide and a record that occurs twice.
WitC1 ==
    /\ pc = "done" /\ AllRequested /\ stride > 0
    /\ \E a, b \in Pos :
          /\ Rec(a) # Rec(b)
          /\ hash(array, ThisElem(stride, a)) = hash(array, ThisElem(stride, b))
    /\ \E a, b \in Pos : a # b /\ Rec(a) = Rec(b)

\* C2: after unique with index and inverse requested, inverse[index[k]] = k for
\* every k in [0, n_unique).
InvC2 ==
    (pc = "done" /\ ~index.null /\ ~inverse.null) =>
        \A k \in Ranks : index.at[k] \in Pos /\ inverse.at[index.at[k]] = k

\* A finished call with at least two groups and a duplicate before the last
\* group's first occurrence.
WitC2 ==
    /\ pc = "done" /\ ~index.null /\ ~inverse.null
    /\ ret >= 2 /\ ret < n
    /\ \E k \in Ranks : index.at[k] # k

\* C3: after unique with index requested, index[k] is the smallest position
\* holding the content of record index[k], and index is strictly increasing over
\* [0, n_unique).
InvC3 ==
    (pc = "done" /\ ~index.null) =>
        /\ \A k \in Ranks : index.at[k] \in Pos /\ FirstOccurrence(index.at[k])
        /\ \A k, l \in Ranks : k < l => index.at[k] < index.at[l]

\* A finished call where a duplicate sits between two first occurrences
WitC3 ==
    /\ pc = "done" /\ ~index.null /\ stride > 0
    /\ ret >= 2
    /\ \E k \in Ranks : index.at[k] > k

\* the sum of counts at the slots index[0 .. k-1]
RECURSIVE SumCounts(_)
SumCounts(k) == IF k = 0 THEN 0 ELSE counts.at[index.at[k - 1]] + SumCounts(k - 1)

\* C4: after unique with all outputs requested, counts[index[k]] is the number
\* of positions i with inverse[i] = k, and these counts sum to n.
InvC4 ==
    (pc = "done" /\ AllRequested) =>
        /\ \A k \in Ranks :
              /\ index.at[k] \in Pos
              /\ counts.at[index.at[k]] = Cardinality({a \in Pos : inverse.at[a] = k})
        /\ (\A k \in Ranks : index.at[k] \in Pos) => SumCounts(ret) = n

\* A finished call with a group of two or more and a second group
WitC4 ==
    /\ pc = "done" /\ AllRequested
    /\ ret >= 2
    /\ \E k \in Ranks : counts.at[index.at[k]] >= 2

\* C5: the value returned satisfies 0 <= n_unique <= n, and n_unique = n iff
\* the n records are pairwise distinct -- for every input.
InvC5 ==
    pc = "done" => /\ 0 <= ret /\ ret <= n
                   /\ (ret = n <=> PairwiseDistinct)

\* C6: with any subset of the outputs absent, unique returns the n_unique of the
\* all-requested call and writes to each requested buffer what that call writes
\* to it (stated for stride > 0, where the all-requested call is defined).
InvC6 ==
    stride > 0 =>
        /\ pc # "crash"
        /\ pc = "done" =>
              LET all == UniqueAllRequested
              IN /\ ret = all.n_unique
                 /\ ~index.null =>
                       \A k \in 0..(all.n_unique - 1) : index.at[k] = all.index.at[k]
                 /\ ~inverse.null =>
                       \A a \in Pos : inverse.at[a] = all.inverse.at[a]
                 /\ ~counts.null =>
                       \A k \in 0..(all.n_unique - 1) :
                          counts.at[all.index.at[k]] = all.counts.at[all.index.at[k]]

\* C7: with stride = 0 and n > 0 unique completes, well defined: one group,
\* n_unique = 1, index[0] = 0, inverse[i] = 0 for all i, counts[0] = n.
InvC7 ==
    (stride = 0 /\ n > 0 /\ AllRequested) =>
        /\ pc # "crash"
        /\ pc = "done" =>
              /\ ret = 1
              /\ index.at[0] = 0
              /\ \A a \in Pos : inverse.at[a] = 0
              /\ counts.at[0] = n

\* C8: when hashmap_new or hashmap_set fails for lack of memory, unique does not
\* return normally: the failure is surfaced as an error.
InvC8 == pc = "done" => oom = "none"

\* C9: unique writes counts only at first-occurrence slots: every other slot
\* of counts holds, after the call, the value it held before.
InvC9 ==
    (pc = "done" /\ ~counts.null) =>
        \A j \in Pos :
            \/ counts.at[j] = counts0.at[j]
            \/ /\ FirstOccurrence(j)
               /\ ~index.null => \E k \in Ranks : index.at[k] = j

\* A finished call that incremented one slot of counts and left another alone
WitC9 ==
    /\ pc = "done" /\ ~counts.null /\ ~index.null
    /\ \E j \in Pos : counts.at[j] >= 2
    /\ \E j \in Pos : ~FirstOccurrence(j) /\ counts.at[j] = counts0.at[j]

\* C10: whenever the lookup for position i succeeds (stride > 0), found_index is
\* the earliest position holding that content, found_index < i, and
\* inverse[found_index] and counts[found_index] were written by an earlier
\* iteration.
InvC10 ==
    (pc = "found" /\ stride > 0) =>
        LET found_index == FoundIndex(p_found_elem, stride)
        IN /\ found_index \in Pos
           /\ found_index < i
           /\ Rec(found_index) = Rec(i)
           /\ FirstOccurrence(found_index)
           /\ ~inverse.null => found_index \in inv_written
           /\ ~counts.null => found_index \in cnt_written

\* A successful lookup at the last position that finds a position other than 0
WitC10 ==
    /\ pc = "found" /\ stride > 1
    /\ FoundIndex(p_found_elem, stride) > 0
    /\ AllRequested

====
